---- MODULE Spec2Model ----
(***************************************************************************)
(* Model of cpubenchmark.py: the Tk main loop (start button, after-queue,  *)
(* result table), the test thread running run_test, and the worker         *)
(* processes running cpu_benchmark_worker.                                 *)
(*                                                                         *)
(* Time is counted in sampling intervals (the 0.5 s sleep of line 52).     *)
(* The test window is scaled from 60 sampling intervals to                 *)
(* DurationIntervals.  A worker's generator pass of INTENSITY iterations   *)
(* is taken in PassBatches batches.  The processor label of the result row *)
(* (line 78) plays no part in the run and is left out of the row.          *)
(***************************************************************************)
EXTENDS Integers, Sequences, FiniteSets, TLC

\* ---------------------------------------------------------------- bounds
MaxRuns == 2            \* start triggers that launch a run
MaxCpus == 2            \* largest processor count the host reports
DurationIntervals == 2  \* test window, in sampling intervals
MaxOverrun == 2         \* most intervals one loop iteration takes beyond its sleep
PassBatches == 1        \* batches a generator pass is taken in
ScoreGrid == 50         \* grid points of calculate_score's inputs
MeanLen == 3            \* longest sample sequence mean_speed is applied to
MaxIterations == 150    \* iterations of the worker's loop that are followed one by one

\* ------------------------------------------------------ program constants
SAMPLE_INTERVAL == 1
TEST_DURATION == DurationIntervals * SAMPLE_INTERVAL
REFERENCE_OPERATIONS == 10^9
PROCESS_TERMINATION_TIMEOUT == 10 * SAMPLE_INTERVAL
INTENSITY == 10^8
MODULUS == 123456789
INT_MAX == 2147483647

Runs == 1..MaxRuns
None == -1
HwReadings == {None, 1000}
ScoreStep == 41 * 10^6
ScoreInputs ==
    {t \in {j * ScoreStep + d : j \in 0..ScoreGrid, d \in {-1, 0, 1}} : t >= 0}
MeanSamples == {0, 1000, 1200, 1400}
MeanInputs == UNION {[1..n -> MeanSamples] : n \in 0..MeanLen}

VARIABLES
    cpus,             \* what the host reports as its processor count (0: not determinable)
    hw,               \* what psutil.cpu_freq() gives on this host (None: not available)
    button,           \* start_button's state
    result_table,     \* rows of the Treeview
    afterQueue,       \* callbacks queued with root.after, in order
    started,          \* number of test threads created so far
    pc,               \* per test thread: the line of run_test it is at
    counters,         \* per run: the values of its shared counters
    lockHeld,         \* per run: is the lock of counter i held by a process that died
    alive,            \* per run: is_alive() of processes[i] (only started ones are listed)
    signalled,        \* per run: terminate() has been called on processes[i]
    idx,              \* per run: position of the current for loop
    speeds,           \* per run: the samples
    elapsed,          \* per run: time.time() - start_time, in ticks
    slept,            \* per run: ticks the last loop iteration took
    total_operations, \* per run: the sum of line 71
    completed,        \* number of run_test calls that returned
    arg,              \* argument of the pure function under check
    ret               \* its result

vars == <<cpus, hw, button, result_table, afterQueue, started, pc, counters,
          lockHeld, alive, signalled, idx, speeds, elapsed, slept,
          total_operations, completed, arg, ret>>

guiVars == <<button, result_table, afterQueue, started>>
hostVars == <<cpus, hw>>
fnVars == <<arg, ret>>
procVars == <<counters, lockHeld, alive, signalled>>
timeVars == <<speeds, elapsed, slept>>

\* ---------------------------------------------------------------- helpers
Min(a, b) == IF a < b THEN a ELSE b

RECURSIVE Sum(_)
Sum(s) == IF s = <<>> THEN 0 ELSE Head(s) + Sum(Tail(s))

\* <<q, r>> with a * m = q * d + r and 0 <= r < d, without forming a * m.
RECURSIVE MulDiv(_, _, _)
MulDiv(a, m, d) ==
    IF m = 0 THEN <<0, 0>>
    ELSE LET h == MulDiv(a, m \div 2, d)
             q2 == (2 * h[1]) + ((2 * h[2]) \div d)
             r2 == (2 * h[2]) % d
         IN IF m % 2 = 0 THEN <<q2, r2>>
            ELSE <<q2 + (a \div d) + ((r2 + (a % d)) \div d), (r2 + (a % d)) % d>>

\* int((total_operations / REFERENCE_OPERATIONS) * 1000): the double result
\* truncates to the exact floor (the exact quotient is either a whole number
\* k <= 1000, where k/1000*1000 rounds back to k, or at least 10^-6 away from
\* one).
calculate_score_unclamped(total) == MulDiv(total, 1000, REFERENCE_OPERATIONS)[1]

calculate_score(total) ==
    Min(1000, MulDiv(total, 1000, REFERENCE_OPERATIONS)[1])

\* psutil.cpu_freq().current if psutil.cpu_freq() else 0
sample_cpu_speed_Unchecked(freq) == freq

sample_cpu_speed(freq) == IF freq = None THEN 0 ELSE freq

\* sum(speeds) / len(speeds) if speeds else 0, as f"{mean_speed:.2f}" shows
\* it: in hundredths of a MHz, rounded half to even.
mean_speed_WholeDivision(s) ==
    IF s = <<>> THEN 0 ELSE (Sum(s) \div Len(s)) * 100

mean_speed(s) ==
    IF s = <<>> THEN 0
    ELSE LET n == Len(s)
             q == (Sum(s) * 100) \div n
             r == (Sum(s) * 100) % n
         IN IF 2 * r > n \/ (2 * r = n /\ q % 2 = 1) THEN q + 1 ELSE q

Seqn(n, v) == [i \in 1..n |-> v]

Init ==
    /\ cpus \in 0..MaxCpus
    /\ hw \in HwReadings
    /\ button = "normal"
    /\ result_table = <<>>
    /\ afterQueue = <<>>
    /\ started = 0
    /\ pc = [r \in Runs |-> "unstarted"]
    /\ counters = [r \in Runs |-> <<>>]
    /\ lockHeld = [r \in Runs |-> <<>>]
    /\ alive = [r \in Runs |-> <<>>]
    /\ signalled = [r \in Runs |-> <<>>]
    /\ idx = [r \in Runs |-> 0]
    /\ speeds = [r \in Runs |-> <<>>]
    /\ elapsed = [r \in Runs |-> 0]
    /\ slept = [r \in Runs |-> 0]
    /\ total_operations = [r \in Runs |-> 0]
    /\ completed = 0
    /\ arg = 0
    /\ ret = None

\* ------------------------------------------------------------ the Tk side
\* A Tk button invokes its command only while its state is NORMAL.
ButtonInvokes == button = "normal"

start_test_KeepsButton ==
    /\ started < MaxRuns
    /\ started' = started + 1
    /\ pc' = [pc EXCEPT ![started + 1] = "L36"]
    /\ UNCHANGED <<button, result_table, afterQueue>>

start_test ==
    /\ started < MaxRuns
    /\ button' = "disabled"
    /\ started' = started + 1
    /\ pc' = [pc EXCEPT ![started + 1] = "L36"]
    /\ UNCHANGED <<result_table, afterQueue>>

Click ==
    /\ ButtonInvokes
    /\ start_test
    /\ UNCHANGED <<hostVars, fnVars, procVars, timeVars, idx, total_operations,
                   completed>>

finalize_test_NoInsert(row) ==
    /\ button' = "normal"
    /\ result_table' = result_table

finalize_test(row) ==
    /\ button' = "normal"
    /\ result_table' = Append(result_table, row)

\* The main loop runs the oldest callback queued with root.after.
RunAfter ==
    /\ afterQueue # <<>>
    /\ finalize_test(Head(afterQueue))
    /\ afterQueue' = Tail(afterQueue)
    /\ UNCHANGED <<hostVars, fnVars, procVars, timeVars, started, pc, idx,
                   total_operations, completed>>

\* ------------------------------------------------------- run_test, by line
At(r, l) == pc[r] = l
Goto(r, l) == pc' = [pc EXCEPT ![r] = l]

\* Line 36: one counter per processor.  multiprocessing.cpu_count() raises
\* NotImplementedError when the count cannot be determined; the exception
\* ends the test thread.
MakeCounters(r) ==
    /\ At(r, "L36")
    /\ IF cpus = 0
       THEN /\ Goto(r, "died")
            /\ UNCHANGED <<procVars, idx>>
       ELSE /\ counters' = [counters EXCEPT ![r] = Seqn(cpus, 0)]
            /\ lockHeld' = [lockHeld EXCEPT ![r] = Seqn(cpus, FALSE)]
            /\ alive' = [alive EXCEPT ![r] = <<>>]
            /\ signalled' = [signalled EXCEPT ![r] = <<>>]
            /\ idx' = [idx EXCEPT ![r] = 1]
            /\ Goto(r, "L41")
    /\ UNCHANGED <<hostVars, guiVars, fnVars, timeVars, total_operations,
                   completed>>

\* Lines 40-43: p.start() succeeds and the worker runs.
StartWorker(r) ==
    /\ At(r, "L41")
    /\ idx[r] <= Len(counters[r])
    /\ alive' = [alive EXCEPT ![r] = Append(@, TRUE)]
    /\ signalled' = [signalled EXCEPT ![r] = Append(@, FALSE)]
    /\ idx' = [idx EXCEPT ![r] = @ + 1]
    /\ UNCHANGED <<hostVars, guiVars, fnVars, timeVars, pc, counters, lockHeld,
                   total_operations, completed>>

\* Line 43: p.start() raises OSError (no process could be created); the
\* exception ends the test thread.  The workers started before keep running.
StartWorkerFails(r) ==
    /\ At(r, "L41")
    /\ idx[r] <= Len(counters[r])
    /\ Goto(r, "died")
    /\ UNCHANGED <<hostVars, guiVars, fnVars, timeVars, procVars, idx,
                   total_operations, completed>>

\* Lines 46-47: all workers are started; the clock of the run starts.
StartClock(r) ==
    /\ At(r, "L41")
    /\ idx[r] > Len(counters[r])
    /\ speeds' = [speeds EXCEPT ![r] = <<>>]
    /\ elapsed' = [elapsed EXCEPT ![r] = 0]
    /\ slept' = [slept EXCEPT ![r] = 0]
    /\ Goto(r, "L49")
    /\ UNCHANGED <<hostVars, guiVars, fnVars, procVars, idx, total_operations,
                   completed>>

\* Line 49: while time.time() - start_time < TEST_DURATION
LoopTest_Reversed(r) ==
    /\ At(r, "L49")
    /\ IF elapsed[r] > TEST_DURATION
       THEN Goto(r, "L51") /\ UNCHANGED idx
       ELSE Goto(r, "L57") /\ idx' = [idx EXCEPT ![r] = 1]
    /\ UNCHANGED <<hostVars, guiVars, fnVars, procVars, timeVars,
                   total_operations, completed>>

LoopTest_AtMost(r) ==
    /\ At(r, "L49")
    /\ IF elapsed[r] <= TEST_DURATION
       THEN Goto(r, "L51") /\ UNCHANGED idx
       ELSE Goto(r, "L57") /\ idx' = [idx EXCEPT ![r] = 1]
    /\ UNCHANGED <<hostVars, guiVars, fnVars, procVars, timeVars,
                   total_operations, completed>>

LoopTest(r) ==
    /\ At(r, "L49")
    /\ IF elapsed[r] < TEST_DURATION
       THEN Goto(r, "L51") /\ UNCHANGED idx
       ELSE Goto(r, "L57") /\ idx' = [idx EXCEPT ![r] = 1]
    /\ UNCHANGED <<hostVars, guiVars, fnVars, procVars, timeVars,
                   total_operations, completed>>

\* Line 51: speeds.append(sample_cpu_speed())
Sample(r) ==
    /\ At(r, "L51")
    /\ speeds' = [speeds EXCEPT ![r] = Append(@, sample_cpu_speed(hw))]
    /\ Goto(r, "L52")
    /\ UNCHANGED <<hostVars, guiVars, fnVars, procVars, idx, elapsed, slept,
                   total_operations, completed>>

\* Line 52: time.sleep(0.5) suspends the thread for at least the interval;
\* the iteration as a whole takes that and whatever the sample and the
\* scheduler add.
Sleep(r) ==
    /\ At(r, "L52")
    /\ \E over \in 0..MaxOverrun :
          /\ slept' = [slept EXCEPT ![r] = SAMPLE_INTERVAL + over]
          /\ elapsed' = [elapsed EXCEPT ![r] = @ + SAMPLE_INTERVAL + over]
    /\ Goto(r, "L49")
    /\ UNCHANGED <<hostVars, guiVars, fnVars, procVars, idx, speeds,
                   total_operations, completed>>

\* Process.join() returns once the process has exited.
JoinReturns_Immediately(r, i) == TRUE

JoinReturns(r, i) == ~alive[r][i]

\* Line 57: p.terminate() signals the worker; the for loop of line 56 ends
\* after the last process.
Terminate_WithoutJoin(r) ==
    /\ At(r, "L57")
    /\ IF idx[r] <= Len(alive[r])
       THEN /\ signalled' = [signalled EXCEPT ![r][idx[r]] = TRUE]
            /\ idx' = [idx EXCEPT ![r] = @ + 1]
            /\ UNCHANGED pc
       ELSE /\ idx' = [idx EXCEPT ![r] = 1]
            /\ Goto(r, "L62")
            /\ UNCHANGED signalled
    /\ UNCHANGED <<hostVars, guiVars, fnVars, timeVars, counters, lockHeld,
                   alive, total_operations, completed>>

Terminate(r) ==
    /\ At(r, "L57")
    /\ IF idx[r] <= Len(alive[r])
       THEN /\ signalled' = [signalled EXCEPT ![r][idx[r]] = TRUE]
            /\ Goto(r, "L58")
            /\ UNCHANGED idx
       ELSE /\ idx' = [idx EXCEPT ![r] = 1]
            /\ Goto(r, "L62")
            /\ UNCHANGED signalled
    /\ UNCHANGED <<hostVars, guiVars, fnVars, timeVars, counters, lockHeld,
                   alive, total_operations, completed>>

\* Line 58: p.join(), without a timeout.
Join(r) ==
    /\ At(r, "L58")
    /\ JoinReturns(r, idx[r])
    /\ idx' = [idx EXCEPT ![r] = @ + 1]
    /\ Goto(r, "L57")
    /\ UNCHANGED <<hostVars, guiVars, fnVars, timeVars, procVars,
                   total_operations, completed>>

\* Lines 61-67, the additional check.  L62: if p.is_alive().  L63: the join
\* with PROCESS_TERMINATION_TIMEOUT returns when the process has exited or
\* the timeout has passed, then is_alive() chooses between the second
\* terminate() and the next process.  L67: p.join() again, without a timeout.
AdditionalCheck(r) ==
    /\ pc[r] \in {"L62", "L63", "L67"}
    /\ CASE At(r, "L62") ->
              IF idx[r] > Len(alive[r])
              THEN Goto(r, "L71") /\ UNCHANGED idx
              ELSE IF alive[r][idx[r]]
                   THEN Goto(r, "L63") /\ UNCHANGED idx
                   ELSE idx' = [idx EXCEPT ![r] = @ + 1] /\ UNCHANGED pc
         [] At(r, "L63") ->
              /\ \E waited \in 0..PROCESS_TERMINATION_TIMEOUT :
                    waited < PROCESS_TERMINATION_TIMEOUT => ~alive[r][idx[r]]
              /\ IF alive[r][idx[r]]
                 THEN Goto(r, "L67") /\ UNCHANGED idx
                 ELSE idx' = [idx EXCEPT ![r] = @ + 1] /\ Goto(r, "L62")
         [] At(r, "L67") ->
              /\ JoinReturns(r, idx[r])
              /\ idx' = [idx EXCEPT ![r] = @ + 1]
              /\ Goto(r, "L62")
    /\ UNCHANGED <<hostVars, guiVars, fnVars, timeVars, procVars,
                   total_operations, completed>>

\* counter.value takes the counter's lock (multiprocessing.Value is created
\* with one); a lock held by a process that was killed is never released.
CounterReadable(r, i) == ~lockHeld[r][i]

\* Line 71: total_operations = sum(counter.value for counter in counters)
ReadCounters_DropsLast(r) ==
    /\ At(r, "L71")
    /\ \A i \in 1..Len(counters[r]) : CounterReadable(r, i)
    /\ total_operations' =
          [total_operations EXCEPT
              ![r] = Sum(SubSeq(counters[r], 1, Len(counters[r]) - 1))]
    /\ Goto(r, "L72")
    /\ UNCHANGED <<hostVars, guiVars, fnVars, timeVars, procVars, idx,
                   completed>>

ReadCounters(r) ==
    /\ At(r, "L71")
    /\ \A i \in 1..Len(counters[r]) : CounterReadable(r, i)
    /\ total_operations' = [total_operations EXCEPT ![r] = Sum(counters[r])]
    /\ Goto(r, "L72")
    /\ UNCHANGED <<hostVars, guiVars, fnVars, timeVars, procVars, idx,
                   completed>>

\* The row finalize_test inserts: the timestamp (one per run), the mean speed
\* and the score.
Row(r) ==
    [timestamp |-> r, mean |-> mean_speed(speeds[r]),
     score |-> calculate_score(total_operations[r])]

\* Lines 72-82: score, mean speed, timestamp, and
\* root.after(0, ...) queues finalize_test for the main loop; run_test
\* returns and its locals (the samples, the counters, the process objects)
\* are gone.
Finish_FinalizesDirectly(r) ==
    /\ At(r, "L72")
    /\ finalize_test(Row(r))
    /\ completed' = completed + 1
    /\ Goto(r, "done")
    /\ idx' = [idx EXCEPT ![r] = 0]
    /\ speeds' = [speeds EXCEPT ![r] = <<>>]
    /\ elapsed' = [elapsed EXCEPT ![r] = 0]
    /\ slept' = [slept EXCEPT ![r] = 0]
    /\ total_operations' = [total_operations EXCEPT ![r] = 0]
    /\ counters' = [counters EXCEPT ![r] = <<>>]
    /\ lockHeld' = [lockHeld EXCEPT ![r] = <<>>]
    /\ alive' = [alive EXCEPT ![r] = <<>>]
    /\ signalled' = [signalled EXCEPT ![r] = <<>>]
    /\ UNCHANGED <<hostVars, fnVars, afterQueue, started>>

Finish(r) ==
    /\ At(r, "L72")
    /\ afterQueue' = Append(afterQueue, Row(r))
    /\ completed' = completed + 1
    /\ Goto(r, "done")
    /\ idx' = [idx EXCEPT ![r] = 0]
    /\ speeds' = [speeds EXCEPT ![r] = <<>>]
    /\ elapsed' = [elapsed EXCEPT ![r] = 0]
    /\ slept' = [slept EXCEPT ![r] = 0]
    /\ total_operations' = [total_operations EXCEPT ![r] = 0]
    /\ counters' = [counters EXCEPT ![r] = <<>>]
    /\ lockHeld' = [lockHeld EXCEPT ![r] = <<>>]
    /\ alive' = [alive EXCEPT ![r] = <<>>]
    /\ signalled' = [signalled EXCEPT ![r] = <<>>]
    /\ UNCHANGED <<hostVars, fnVars, button, result_table, started>>

\* ------------------------------------------------- cpu_benchmark_worker
Batch == (INTENSITY + PassBatches - 1) \div PassBatches

\* Lines 19-21: the next iterations of the pass, each adding 1 to the counter.
WorkerRuns_PassAfterPass(r, i) ==
    /\ i \in 1..Len(alive[r])
    /\ alive[r][i]
    /\ counters' = [counters EXCEPT ![r][i] = @ + Batch]
    /\ UNCHANGED <<hostVars, guiVars, fnVars, timeVars, pc, idx, lockHeld,
                   alive, signalled, total_operations, completed>>

WorkerRuns_SharedCounter(r, i) ==
    /\ i \in 1..Len(alive[r])
    /\ alive[r][i]
    /\ counters[r][1] < INTENSITY
    /\ counters' = [counters EXCEPT
                       ![r][1] = @ + Min(Batch, INTENSITY - @)]
    /\ UNCHANGED <<hostVars, guiVars, fnVars, timeVars, pc, idx, lockHeld,
                   alive, signalled, total_operations, completed>>

WorkerRuns(r, i) ==
    /\ i \in 1..Len(alive[r])
    /\ alive[r][i]
    /\ counters[r][i] < INTENSITY
    /\ counters' = [counters EXCEPT
                       ![r][i] = @ + Min(Batch, INTENSITY - @)]
    /\ UNCHANGED <<hostVars, guiVars, fnVars, timeVars, pc, idx, lockHeld,
                   alive, signalled, total_operations, completed>>

\* The pass is over: the function returns and the process exits.
WorkerExits(r, i) ==
    /\ i \in 1..Len(alive[r])
    /\ alive[r][i]
    /\ counters[r][i] = INTENSITY
    /\ alive' = [alive EXCEPT ![r][i] = FALSE]
    /\ UNCHANGED <<hostVars, guiVars, fnVars, timeVars, pc, idx, counters,
                   lockHeld, signalled, total_operations, completed>>

\* The signal of terminate() ends the process wherever it is: between two
\* iterations, or inside counter.value += 1 with the counter's lock held.
WorkerKilled(r, i) ==
    /\ i \in 1..Len(alive[r])
    /\ alive[r][i]
    /\ signalled[r][i]
    /\ alive' = [alive EXCEPT ![r][i] = FALSE]
    /\ \E held \in BOOLEAN :
          /\ held => counters[r][i] < INTENSITY
          /\ lockHeld' = [lockHeld EXCEPT ![r][i] = held]
    /\ UNCHANGED <<hostVars, guiVars, fnVars, timeVars, pc, idx, counters,
                   signalled, total_operations, completed>>

\* ------------------------------------------------------- specifications
ThreadStep(r) ==
    \/ MakeCounters(r)
    \/ StartWorker(r)
    \/ StartWorkerFails(r)
    \/ StartClock(r)
    \/ LoopTest(r)
    \/ Sample(r)
    \/ Sleep(r)
    \/ Terminate(r)
    \/ Join(r)
    \/ AdditionalCheck(r)
    \/ ReadCounters(r)
    \/ Finish(r)

Next ==
    \/ Click
    \/ RunAfter
    \/ \E r \in Runs : ThreadStep(r)
    \/ \E r \in Runs, i \in 1..MaxCpus : WorkerRuns(r, i)
    \/ \E r \in Runs, i \in 1..MaxCpus : WorkerExits(r, i)
    \/ \E r \in Runs, i \in 1..MaxCpus : WorkerKilled(r, i)

Spec == Init /\ [][Next]_vars

\* The scheduler runs every thread that can run, the main loop runs its
\* queued callbacks, and a signalled or finished process exits.
FairSpec ==
    /\ Spec
    /\ WF_vars(RunAfter)
    /\ \A r \in Runs : WF_vars(ThreadStep(r))
    /\ \A r \in Runs, i \in 1..MaxCpus :
          WF_vars(WorkerExits(r, i)) /\ WF_vars(WorkerKilled(r, i))

\* calculate_score applied to one input.
ScoreInit ==
    /\ cpus = 1
    /\ hw = None
    /\ button = "normal"
    /\ result_table = <<>>
    /\ afterQueue = <<>>
    /\ started = 0
    /\ pc = [r \in Runs |-> "unstarted"]
    /\ counters = [r \in Runs |-> <<>>]
    /\ lockHeld = [r \in Runs |-> <<>>]
    /\ alive = [r \in Runs |-> <<>>]
    /\ signalled = [r \in Runs |-> <<>>]
    /\ idx = [r \in Runs |-> 0]
    /\ speeds = [r \in Runs |-> <<>>]
    /\ elapsed = [r \in Runs |-> 0]
    /\ slept = [r \in Runs |-> 0]
    /\ total_operations = [r \in Runs |-> 0]
    /\ completed = 0
    /\ arg \in ScoreInputs
    /\ ret = None

ApplyScore ==
    /\ ret = None
    /\ ret' = calculate_score(arg)
    /\ UNCHANGED <<hostVars, guiVars, procVars, timeVars, pc, idx,
                   total_operations, completed, arg>>

ScoreNext == ApplyScore

ScoreSpec == ScoreInit /\ [][ScoreNext]_vars

\* mean_speed applied to one sequence of samples.
Idle ==
    /\ cpus = 1
    /\ hw = None
    /\ button = "normal"
    /\ result_table = <<>>
    /\ afterQueue = <<>>
    /\ started = 0
    /\ pc = [r \in Runs |-> "unstarted"]
    /\ counters = [r \in Runs |-> <<>>]
    /\ lockHeld = [r \in Runs |-> <<>>]
    /\ alive = [r \in Runs |-> <<>>]
    /\ signalled = [r \in Runs |-> <<>>]
    /\ idx = [r \in Runs |-> 0]
    /\ speeds = [r \in Runs |-> <<>>]
    /\ elapsed = [r \in Runs |-> 0]
    /\ slept = [r \in Runs |-> 0]
    /\ total_operations = [r \in Runs |-> 0]
    /\ completed = 0

MeanInit ==
    /\ Idle
    /\ arg \in MeanInputs
    /\ ret = None

ApplyMean ==
    /\ ret = None
    /\ ret' = mean_speed(arg)
    /\ UNCHANGED <<hostVars, guiVars, procVars, timeVars, pc, idx,
                   total_operations, completed, arg>>

MeanNext == ApplyMean

MeanSpec == MeanInit /\ [][MeanNext]_vars

\* Line 20, count += (count * 3 + 1) % 123456789, on the unbounded integer
\* count = c[1] * MODULUS + c[2] with c[2] < MODULUS.
WorkerIteration_Assigns(c) == <<0, ((c[2] * 3) + 1) % MODULUS>>

WorkerIteration(c) ==
    LET add == ((c[2] * 3) + 1) % MODULUS
    IN <<c[1] + ((c[2] + add) \div MODULUS), (c[2] + add) % MODULUS>>

\* The local value of one worker, iteration by iteration: arg counts the
\* iterations and ret is the value.
KernelInit ==
    /\ Idle
    /\ arg = 0
    /\ ret = <<0, 0>>

KernelIterate ==
    /\ arg < MaxIterations
    /\ arg' = arg + 1
    /\ ret' = WorkerIteration(ret)
    /\ UNCHANGED <<hostVars, guiVars, procVars, timeVars, pc, idx,
                   total_operations, completed>>

KernelNext == KernelIterate

KernelSpec == KernelInit /\ [][KernelNext]_vars

\* ----------------------------------------------------------- properties
Active(r) == pc[r] \notin {"unstarted", "done", "died"}
Reported(r) == \E k \in 1..Len(result_table) : result_table[k].timestamp = r
Queued(r) == \E k \in 1..Len(afterQueue) : afterQueue[k].timestamp = r
AnyAlive(r) == \E i \in 1..Len(alive[r]) : alive[r][i]
Stopped(r) == pc[r] \in {"L71", "L72", "done"}
Stopping(r) == pc[r] \in {"L57", "L58", "L62", "L63", "L67", "L71", "L72"}
Count(seq, r) == Cardinality({k \in 1..Len(seq) : seq[k].timestamp = r})

\* C1: once both shutdown loops of run_test are over, no worker process the
\* run started is alive.
C1_NoWorkerAliveAfterStop ==
    \A r \in Runs : Stopped(r) => ~AnyAlive(r)

\* A run of two or more workers is past its shutdown, and one of its workers
\* was stopped before the end of its pass.
C1_Witness ==
    \E r \in Runs :
       /\ pc[r] = "L71"
       /\ Len(alive[r]) >= 2
       /\ \E i \in 1..Len(alive[r]) : counters[r][i] < INTENSITY

\* C2: the steps that read the counters (line 71) and compute the score and
\* the mean (lines 72-75) are taken only when every worker of the run has
\* been started, signalled and found dead.
C2_StatisticsAfterWorkersStopped ==
    [][\A r \in Runs :
          (pc[r] \in {"L71", "L72"} /\ pc'[r] # pc[r]) =>
             /\ Len(alive[r]) = Len(counters[r])
             /\ \A i \in 1..Len(alive[r]) : signalled[r][i] /\ ~alive[r][i]]_vars

\* The counters were read and their sum is that of a worker that ran.
C2_Witness ==
    \E r \in Runs : pc[r] = "L72" /\ total_operations[r] > 0

\* C3: the score is floor(total_operations * 1000 / REFERENCE_OPERATIONS),
\* cut off at 1000, and lies in 0..1000.
C3_ScoreIsClampedFloor ==
    ret # None =>
       /\ ret \in 0..1000
       /\ IF arg >= REFERENCE_OPERATIONS
          THEN ret = 1000
          ELSE /\ ret * (REFERENCE_OPERATIONS \div 1000) <= arg
               /\ arg < (ret + 1) * (REFERENCE_OPERATIONS \div 1000)

\* The score of a total more than twice the reference.
C3_Witness == ret = 1000 /\ arg > 2 * REFERENCE_OPERATIONS

\* C4: at most one run is in progress, and workers of two runs are never
\* alive at the same time.
C4_OneRunAtATime ==
    /\ Cardinality({r \in Runs : Active(r)}) <= 1
    /\ \A r1, r2 \in Runs : r1 # r2 => ~(AnyAlive(r1) /\ AnyAlive(r2))

\* A second run is in progress with live workers, the button disabled, after
\* an earlier run has completed.
C4_Witness ==
    \E r \in Runs :
       Active(r) /\ AnyAlive(r) /\ button = "disabled" /\ completed >= 1

\* C5: when the host reports no processor count, the pool has one worker and
\* the run goes on.
C5_ZeroProcessorsFallBack ==
    \A r \in Runs :
       (cpus = 0 /\ pc[r] \notin {"unstarted", "L36"}) =>
          Len(counters[r]) = 1 /\ pc[r] # "died"

\* C6: the test thread waits without a timeout for a live worker only after
\* the timed wait and the forced kill of that worker (line 66), which leave
\* it at line 67.
UntimedWait(r) == pc[r] \in {"L58", "L67"} /\ alive[r][idx[r]]
ForcedKillIssued(r) == pc[r] = "L67"
C6_EscalationProtocol ==
    \A r \in Runs : UntimedWait(r) => ForcedKillIssued(r)

\* C7: a run has one result (queued for the main loop or inserted in the
\* table) when it has completed and none before, the completed runs are as
\* many as the results, and the rows of the table are never changed or
\* removed.
C7_OneRowPerCompletedRun ==
    /\ [](/\ \A r \in Runs :
               Count(result_table, r) + Count(afterQueue, r)
                  = IF pc[r] = "done" THEN 1 ELSE 0
          /\ completed = Len(result_table) + Len(afterQueue))
    /\ [][/\ Len(result_table') >= Len(result_table)
          /\ SubSeq(result_table', 1, Len(result_table)) = result_table]_vars

\* Every run the model allows has completed and has its row.
C7_Witness == completed = MaxRuns /\ Len(result_table) = MaxRuns

\* C8: every run whose workers were all started eventually finishes: its
\* result row is in the table and the start button is enabled again.
C8_EveryRunFinishes ==
    \A r \in Runs : (pc[r] = "L49") ~> (Reported(r) /\ button = "normal")

SpawnFailed(r) == pc[r] = "died" /\ cpus > 0
C10_SpawnFailureLeavesRetry ==
    /\ [](\A r \in Runs : SpawnFailed(r) => ~Reported(r) /\ ~Queued(r))
    /\ \A r \in Runs :
          SpawnFailed(r) ~> (button = "normal" /\ ~AnyAlive(r))

\* C11: the mean speed of an empty sequence is 0, and that of any other is
\* the sum of the samples divided by their number, to the hundredth of a MHz
\* that the row shows.
C11_MeanIsArithmeticMean ==
    ret # None =>
       IF arg = <<>>
       THEN ret = 0
       ELSE LET d == ret * Len(arg) - 100 * Sum(arg)
            IN 2 * d <= Len(arg) /\ -2 * d <= Len(arg)

\* The mean of 1000, 1200 and 1400 MHz is 1200.00 MHz.
C11_Witness == arg = <<1000, 1200, 1400>> /\ ret = 120000

\* C12: the total read at line 71 is the sum of the iterations the workers
\* went through; when each of the n workers went through its whole pass it
\* is n * INTENSITY and the score is floor(n * INTENSITY * 1000 /
\* REFERENCE_OPERATIONS), cut off at 1000.
FullPasses(r) == \A i \in 1..Len(counters[r]) : counters[r][i] = INTENSITY
C12_TotalOfFullPasses ==
    \A r \in Runs :
       pc[r] = "L72" =>
          /\ total_operations[r] = Sum(counters[r])
          /\ FullPasses(r) =>
                /\ total_operations[r] = Len(counters[r]) * INTENSITY
                /\ Row(r).score =
                      Min(1000, (Len(counters[r]) * INTENSITY)
                                   \div (REFERENCE_OPERATIONS \div 1000))

\* Two workers went through their whole pass: the total is 2 * INTENSITY and
\* the score 200.
C12_Witness ==
    \E r \in Runs :
       /\ pc[r] = "L72"
       /\ Len(counters[r]) = 2
       /\ FullPasses(r)
       /\ total_operations[r] = 2 * INTENSITY
       /\ Row(r).score = 200

C14_CountersOwnedAndMonotonic ==
    [][\A r \in Runs :
          Len(counters'[r]) = Len(counters[r]) =>
             \A i \in 1..Len(counters[r]) :
                /\ counters'[r][i] >= counters[r][i]
                /\ counters'[r][i] # counters[r][i] =>
                      /\ i <= Len(alive[r]) /\ alive[r][i]
                      /\ pc' = pc
                      /\ \A j \in 1..Len(counters[r]) :
                            j # i => counters'[r][j] = counters[r][j]]_vars

\* Two workers of a run have both counted, one of them already stopped.
C14_Witness ==
    \E r \in Runs :
       /\ Len(alive[r]) >= 2
       /\ counters[r][1] > 0 /\ counters[r][2] > 0
       /\ ~alive[r][1] /\ alive[r][2]

\* C15 as claimed: after every iteration the local value is below MODULUS
\* and is the iterate of x -> (x * 3 + 1) mod MODULUS from 0.
RECURSIVE AssignedIterate(_)
AssignedIterate(k) ==
    IF k = 0 THEN 0 ELSE ((AssignedIterate(k - 1) * 3) + 1) % MODULUS
C15_BoundedRecurrence ==
    ret[1] = 0 /\ ret[2] = AssignedIterate(arg)

\* C15 as amended: an iteration adds (count * 3 + 1) mod MODULUS to the local
\* value: the value never decreases, grows by less than MODULUS, the growth
\* is congruent to count * 3 + 1, and the value is below MODULUS during the
\* first 15 iterations only.
C15_AccumulatingRecurrence ==
    /\ [](ret[1] = 0 <=> arg <= 15)
    /\ [][LET grown == ((ret'[1] - ret[1]) * MODULUS) + (ret'[2] - ret[2])
          IN /\ ret'[1] - ret[1] \in {0, 1}
             /\ 0 <= grown /\ grown < MODULUS
             /\ ((4 * ret[2]) + 1 + MODULUS - ret'[2]) % MODULUS = 0]_vars

\* The local value has grown beyond MODULUS - 1.
C15_Witness == arg >= 16 /\ ret[1] >= 1

\* C16: the button and the result table change only in steps of the main
\* loop: in such a step no running test thread moves and no worker does, and
\* a row enters the table only as the row of the oldest queued callback,
\* which leaves the queue.
C16_CompletionThroughMainLoop ==
    [][(button' # button \/ result_table' # result_table) =>
          /\ \A r \in Runs :
                pc'[r] = pc[r] \/ (pc[r] = "unstarted" /\ pc'[r] = "L36")
          /\ procVars' = procVars
          /\ result_table' # result_table =>
                /\ afterQueue # <<>>
                /\ result_table' = Append(result_table, Head(afterQueue))
                /\ afterQueue' = Tail(afterQueue)]_vars

\* run_test has returned and its callback waits in the queue, the button
\* still disabled.
C16_Witness ==
    \E r \in Runs : pc[r] = "done" /\ Queued(r) /\ button = "disabled"

\* C17: a counter is never above INTENSITY, which fits its signed 32-bit
\* cell; the total of a run of n workers is at most n * INTENSITY, and its
\* score, computed, queued or in the table, at most floor(n * INTENSITY *
\* 1000 / REFERENCE_OPERATIONS) cut off at 1000.
ScoreCap(n) ==
    Min(1000, (n * INTENSITY) \div (REFERENCE_OPERATIONS \div 1000))
C17_SinglePassBounds ==
    /\ INTENSITY <= INT_MAX
    /\ \A r \in Runs :
          /\ \A i \in 1..Len(counters[r]) : counters[r][i] \in 0..INTENSITY
          /\ pc[r] = "L72" =>
                /\ total_operations[r] <= Len(counters[r]) * INTENSITY
                /\ Row(r).score <= ScoreCap(Len(counters[r]))
    /\ \A k \in 1..Len(afterQueue) : afterQueue[k].score <= ScoreCap(cpus)
    /\ \A k \in 1..Len(result_table) : result_table[k].score <= ScoreCap(cpus)

\* The row of a run of two workers shows the highest score such a run can
\* have.
C17_Witness ==
    /\ cpus = 2
    /\ \E k \in 1..Len(result_table) : result_table[k].score = ScoreCap(2)

\* C18: the duration is positive; once the test thread has left the sampling
\* loop the run has at least one sample; and the samples of a run change
\* only by the append of line 51, until run_test returns and drops them.
C18_SamplesNeverEmpty ==
    /\ [](/\ TEST_DURATION > 0
          /\ \A r \in Runs : Stopping(r) => Len(speeds[r]) >= 1)
    /\ [][\A r \in Runs :
             speeds'[r] # speeds[r] =>
                \/ /\ pc[r] = "L51"
                   /\ Len(speeds'[r]) = Len(speeds[r]) + 1
                   /\ SubSeq(speeds'[r], 1, Len(speeds[r])) = speeds[r]
                \/ /\ pc[r] = "L72" /\ pc'[r] = "done"
                   /\ speeds'[r] = <<>>]_vars

\* The first iteration took the whole duration: the mean is that of one
\* sample.
C18_Witness ==
    \E r \in Runs : pc[r] = "L72" /\ Len(speeds[r]) = 1

\* C19: when the additional check runs no worker of the run is alive; the
\* timed join of line 63 and the second terminate and join of lines 66-67
\* are never reached; and a step of the check moves only the test thread
\* along its loop.
C19_AdditionalCheckIdle ==
    /\ [](\A r \in Runs :
             /\ pc[r] \notin {"L63", "L67"}
             /\ pc[r] = "L62" => ~AnyAlive(r))
    /\ [][\A r \in Runs :
             (pc[r] = "L62" /\ <<pc[r], idx[r]>>' # <<pc[r], idx[r]>>) =>
                /\ pc'[r] \in {"L62", "L71"}
                /\ <<hostVars, guiVars, procVars, timeVars, total_operations,
                     completed>>' =
                   <<hostVars, guiVars, procVars, timeVars, total_operations,
                     completed>>]_vars

\* The additional check has gone past the first of two or more workers.
C19_Witness ==
    \E r \in Runs : pc[r] = "L62" /\ idx[r] >= 2 /\ Len(alive[r]) >= 2

====
